---- MODULE Spec2Model ----
(***************************************************************************)
(* Model of the two scripts of the repository:                             *)
(*   run_migration.py  - reads a SQL file, sends it to the database as one *)
(*                       batch, runs three verification queries, closes.   *)
(*   fix-auth.py       - rewrites one block of blockchainService.ts with   *)
(*                       re.sub and writes the file back.                  *)
(* Text is a sequence of one-character strings (run_migration.py) or a     *)
(* sequence of tokens (fix-auth.py, see the token table further down).     *)
(***************************************************************************)
EXTENDS Integers, Sequences, FiniteSets, TLC

VARIABLES
    \* ---- run_migration.py
    fileStatus,   \* the migration file on disk: "present", "missing", "unreadable"
    fileText,     \* its text when present
    pc,           \* position of the script
    sql_content,  \* line 19
    sql_clean,    \* line 23
    conn,         \* "none", "open", "closed"
    autocommit,   \* line 27
    cursor,       \* "none", "open", "closed"
    sent,         \* what cursor.execute was given, in order
    out,          \* the lines printed, in order
    exit_code,    \* process exit code once pc = "done"
    steps,        \* the steps attempted, in order, with their outcome
    admin_rows,   \* the result set of the admin lookup held by the cursor
    \* ---- fix-auth.py
    ts_file,      \* src/services/blockchainService.ts: [exists, text]
    fa_pc,        \* position of the script
    content,      \* line 5 / line 32
    fa_out,       \* the lines printed by the current run
    fa_status,    \* exit status of the current run
    fa_runs,      \* runs started so far
    fa_read,      \* what the current run read at line 5
    fa_prev       \* what the run before it read

mig_vars == <<fileStatus, fileText, pc, sql_content, sql_clean, conn, autocommit,
              cursor, sent, out, exit_code, steps, admin_rows>>
fa_vars == <<ts_file, fa_pc, content, fa_out, fa_status, fa_runs, fa_read, fa_prev>>
vars == <<mig_vars, fa_vars>>

\* ------------------------------------------------------------------ bounds
MaxLen == 4         \* characters in the migration file
MaxAdminRows == 2   \* rows the admin lookup can return
MaxChunks == 4      \* pieces blockchainService.ts is put together from
MaxRuns == 2        \* times fix-auth.py is run on the same file

\* ------------------------------------------------------------------ text helpers
SeqsUpTo(S, n) == UNION {[1..k -> S] : k \in 0..n}

RECURSIVE Flatten(_)
Flatten(ss) == IF ss = <<>> THEN <<>> ELSE Head(ss) \o Flatten(Tail(ss))

\* str.split('\n'): always at least one piece; n separators give n+1 pieces
RECURSIVE SplitNl(_)
SplitNl(s) ==
    IF \A i \in 1..Len(s) : s[i] # "\n" THEN <<s>>
    ELSE LET i == CHOOSE k \in 1..Len(s) :
                     s[k] = "\n" /\ \A j \in 1..(k-1) : s[j] # "\n"
         IN <<SubSeq(s, 1, i-1)>> \o SplitNl(SubSeq(s, i+1, Len(s)))

\* '\n'.join(lines)
RECURSIVE JoinNl(_)
JoinNl(ls) ==
    IF ls = <<>> THEN <<>>
    ELSE IF Len(ls) = 1 THEN ls[1]
    ELSE ls[1] \o <<"\n">> \o JoinNl(Tail(ls))

IsSpace(c) == c \in {" ", "\n"}

\* str.strip(): leading and trailing whitespace removed
RECURSIVE LStrip(_)
LStrip(s) == IF s # <<>> /\ IsSpace(Head(s)) THEN LStrip(Tail(s)) ELSE s
RECURSIVE RStrip(_)
RStrip(s) == IF s # <<>> /\ IsSpace(s[Len(s)]) THEN RStrip(SubSeq(s, 1, Len(s)-1)) ELSE s
Strip(s) == RStrip(LStrip(s))

\* str.startswith(p)
StartsWith(s, p) == Len(s) >= Len(p) /\ SubSeq(s, 1, Len(p)) = p

IsCommentLine(line) == StartsWith(Strip(line), <<"-", "-">>)

\* lines 22-23: sql_clean
StripComments(text) ==
    JoinNl(SelectSeq(SplitNl(text), LAMBDA line : ~IsCommentLine(line)))

\* ------------------------------------------------------------------ run_migration.py
SqlChars == {"-", " ", "\n", "x"}
SqlTexts == SeqsUpTo(SqlChars, MaxLen)

Line(tag, val) == [tag |-> tag, val |-> val]
P(tag) == Line(tag, <<>>)

\* what the outside world can answer to a step
Outcomes == {"ok", "db_error", "other_error"}

\* rows of "SELECT status, COUNT(*) ... GROUP BY status": one row per status
Statuses == {"active", "resolved"}
GroupResults ==
    {<<>>} \cup {<<<<s, "1">>>> : s \in Statuses}
           \cup {<<<<st[1], "2">>, <<st[2], "1">>>> :
                     st \in {p \in Statuses \X Statuses : p[1] # p[2]}}

\* rows of the admin lookup: (id, role, wallet_address, created_at)
WALLET == "ARytv9UPs8ajtsHboVgtVJDwz1u7VrHTfDj8qERFrcJE"
AdminRow == {<<"1", "super_admin", WALLET, "t1">>, <<"2", "moderator", WALLET, "t2">>}
AdminResults == SeqsUpTo(AdminRow, MaxAdminRows)

Q_DUELS == <<"SELECT status, COUNT(*) FROM duels GROUP BY status;">>
Q_MARKETS == <<"SELECT status, COUNT(*) FROM markets GROUP BY status;">>
Q_ADMIN == <<"SELECT au.id, au.role, u.wallet_address, au.created_at ...">>

Step(name, outcome) == [step |-> name, outcome |-> outcome]

MigInit ==
    /\ fileStatus \in {"present", "missing", "unreadable"}
    /\ fileText \in (IF fileStatus = "missing" THEN {<<>>} ELSE SqlTexts)
    /\ pc = "load"
    /\ sql_content = <<>>
    /\ sql_clean = <<>>
    /\ conn = "none"
    /\ autocommit = FALSE
    /\ cursor = "none"
    /\ sent = <<>>
    /\ out = <<>>
    /\ exit_code = 0
    /\ steps = <<>>
    /\ admin_rows = <<>>

\* mutant: "except Exception" listed first, so it catches everything
HandlerLine_Mut(kind) == P("err_unexpected")

\* lines 80-88: the three handlers; each prints one line and calls sys.exit(1)
HandlerLine(kind) ==
    CASE kind = "not_found"   -> P("err_file_not_found")
      [] kind = "db_error"    -> P("err_database")
      [] kind = "other_error" -> P("err_unexpected")

\* mutant: a handler without sys.exit(1)
HandlerExit_Mut == exit_code

\* lines 82, 85, 88: sys.exit(1)
HandlerExit == 1

\* mutant: the handler logs the error and the script carries on
Abort_Mut(kind, printed) ==
    /\ out' = out \o printed \o <<HandlerLine(kind)>>
    /\ exit_code' = exit_code
    /\ pc' = IF pc = "load" THEN "done"
             ELSE CASE pc = "connect" -> "execute"
                    [] pc = "execute" -> "duels"
                    [] pc = "duels"   -> "markets"
                    [] pc = "markets" -> "admin"
                    [] pc = "admin"   -> "close"

\* an exception raised at the current step, with what the step printed before it
Abort(kind, printed) ==
    /\ out' = out \o printed \o <<HandlerLine(kind)>>
    /\ exit_code' = HandlerExit
    /\ pc' = "done"

\* mutant: the batch is executed before the connection is set up
NextStep_Mut(p) ==
    CASE p = "load"    -> "execute"
      [] p = "execute" -> "connect"
      [] p = "connect" -> "duels"
      [] p = "duels"   -> "markets"
      [] p = "markets" -> "admin"
      [] p = "admin"   -> "close"
      [] p = "close"   -> "done"

\* the order of the script's steps, lines 16-78
NextStep(p) ==
    CASE p = "load"    -> "connect"
      [] p = "connect" -> "execute"
      [] p = "execute" -> "duels"
      [] p = "duels"   -> "markets"
      [] p = "markets" -> "admin"
      [] p = "admin"   -> "close"
      [] p = "close"   -> "done"

\* lines 17-23
ReadFile ==
    /\ pc = "load"
    /\ \/ /\ fileStatus = "present"
          /\ sql_content' = fileText
          /\ sql_clean' = StripComments(fileText)
          /\ out' = out \o <<P("reading")>>
          /\ steps' = Append(steps, Step("load", "ok"))
          /\ pc' = NextStep(pc)
          /\ UNCHANGED exit_code
       \/ /\ fileStatus = "missing"
          /\ Abort("not_found", <<P("reading")>>)
          /\ steps' = Append(steps, Step("load", "not_found"))
          /\ UNCHANGED <<sql_content, sql_clean>>
       \/ /\ fileStatus = "unreadable"
          /\ Abort("other_error", <<P("reading")>>)
          /\ steps' = Append(steps, Step("load", "other_error"))
          /\ UNCHANGED <<sql_content, sql_clean>>
    /\ UNCHANGED <<fileStatus, fileText, conn, autocommit, cursor, sent, admin_rows, fa_vars>>

\* lines 25-28
Connect ==
    /\ pc = "connect"
    /\ \E o \in Outcomes :
        /\ steps' = Append(steps, Step("connect", o))
        /\ IF o = "ok"
           THEN /\ conn' = "open"
                /\ autocommit' = TRUE
                /\ cursor' = "open"
                /\ out' = out \o <<P("connecting")>>
                /\ pc' = NextStep(pc)
                /\ UNCHANGED exit_code
           ELSE /\ Abort(o, <<P("connecting")>>)
                /\ UNCHANGED <<conn, autocommit, cursor>>
    /\ UNCHANGED <<fileStatus, fileText, sql_content, sql_clean, sent, admin_rows, fa_vars>>

\* mutant: the comment-stripped copy is sent
BatchText_Mut == sql_clean

\* line 34: the text given to cursor.execute
BatchText == sql_content

\* lines 30-41
Execute ==
    /\ pc = "execute"
    /\ sent' = Append(sent, BatchText)
    /\ \E o \in Outcomes :
        /\ steps' = Append(steps, Step("execute", o))
        /\ IF o = "ok"
           THEN /\ out' = out \o <<P("executing"), P("rule"), P("success"), P("rule"),
                                   P("verification"), P("dashes")>>
                /\ pc' = NextStep(pc)
                /\ UNCHANGED exit_code
           ELSE Abort(o, <<P("executing"), P("rule")>>)
    /\ UNCHANGED <<fileStatus, fileText, sql_content, sql_clean, conn, autocommit, cursor, admin_rows, fa_vars>>

\* lines 47-48 and 54-55: one "status: count" line per row
GroupLines(rows) == [i \in 1..Len(rows) |-> Line("group", rows[i])]

\* lines 44-48
QueryDuels ==
    /\ pc = "duels"
    /\ sent' = Append(sent, Q_DUELS)
    /\ \E o \in Outcomes :
        /\ steps' = Append(steps, Step("duels", o))
        /\ IF o = "ok"
           THEN \E duels_result \in GroupResults :
                /\ out' = out \o <<P("duels_header")>> \o GroupLines(duels_result)
                /\ pc' = NextStep(pc)
                /\ UNCHANGED exit_code
           ELSE Abort(o, <<>>)
    /\ UNCHANGED <<fileStatus, fileText, sql_content, sql_clean, conn, autocommit, cursor, admin_rows, fa_vars>>

\* lines 51-55
QueryMarkets ==
    /\ pc = "markets"
    /\ sent' = Append(sent, Q_MARKETS)
    /\ \E o \in Outcomes :
        /\ steps' = Append(steps, Step("markets", o))
        /\ IF o = "ok"
           THEN \E markets_result \in GroupResults :
                /\ out' = out \o <<P("markets_header")>> \o GroupLines(markets_result)
                /\ pc' = NextStep(pc)
                /\ UNCHANGED exit_code
           ELSE Abort(o, <<>>)
    /\ UNCHANGED <<fileStatus, fileText, sql_content, sql_clean, conn, autocommit, cursor, admin_rows, fa_vars>>

\* mutant: the last row instead of the first
FetchOne_Mut(rows) == IF rows = <<>> THEN <<>> ELSE rows[Len(rows)]

\* line 64: cursor.fetchone() is the first row of the result, or None (<<>>)
FetchOne(rows) == IF rows = <<>> THEN <<>> ELSE rows[1]

\* line 66: truth value of the fetched row (None and () are false)
Truthy(row) == row # <<>>

\* mutant: no else branch
AdminLines_Mut(admin_result) ==
    <<P("admin_header")>> \o
    (IF admin_result # <<>>
     THEN <<Line("id", <<admin_result[1]>>), Line("role", <<admin_result[2]>>),
            Line("wallet", <<admin_result[3]>>), Line("created", <<admin_result[4]>>)>>
     ELSE <<>>)

\* lines 65-72
AdminLines(admin_result) ==
    <<P("admin_header")>> \o
    (IF Truthy(admin_result)
     THEN <<Line("id", <<admin_result[1]>>), Line("role", <<admin_result[2]>>),
            Line("wallet", <<admin_result[3]>>), Line("created", <<admin_result[4]>>)>>
     ELSE <<P("admin_not_found")>>)

\* lines 58-75
QueryAdmin ==
    /\ pc = "admin"
    /\ sent' = Append(sent, Q_ADMIN)
    /\ \E o \in Outcomes :
        /\ IF o = "ok"
           THEN \E rows \in AdminResults :
                /\ steps' = Append(steps, Step("admin", o))
                /\ admin_rows' = rows
                /\ out' = out \o AdminLines(FetchOne(rows)) \o <<P("rule"), P("all_done")>>
                /\ pc' = NextStep(pc)
                /\ UNCHANGED exit_code
           ELSE /\ steps' = Append(steps, Step("admin", o))
                /\ Abort(o, <<>>)
                /\ UNCHANGED admin_rows
    /\ UNCHANGED <<fileStatus, fileText, sql_content, sql_clean, conn, autocommit, cursor, fa_vars>>

\* lines 77-78, then the script ends: exit code 0
Close ==
    /\ pc = "close"
    /\ cursor' = "closed"
    /\ conn' = "closed"
    /\ steps' = Append(steps, Step("close", "ok"))
    /\ pc' = NextStep(pc)
    /\ exit_code' = 0
    /\ UNCHANGED <<fileStatus, fileText, sql_content, sql_clean, autocommit, sent, out, admin_rows, fa_vars>>

MigNext ==
    \/ ReadFile
    \/ Connect
    \/ Execute
    \/ QueryDuels
    \/ QueryMarkets
    \/ QueryAdmin
    \/ Close

MigIdle ==
    /\ fileStatus = "missing"
    /\ fileText = <<>>
    /\ pc = "idle"
    /\ sql_content = <<>>
    /\ sql_clean = <<>>
    /\ conn = "none"
    /\ autocommit = FALSE
    /\ cursor = "none"
    /\ sent = <<>>
    /\ out = <<>>
    /\ exit_code = 0
    /\ steps = <<>>
    /\ admin_rows = <<>>

\* ------------------------------------------------------------------ fix-auth.py
(***************************************************************************)
(* Tokens of blockchainService.ts:                                         *)
(*   "s"   one space                   "n"   a line break                  *)
(*   "L"   console.log('  payload:', JSON.stringify(payload, null, 2));    *)
(*   "F1"  const response = await fetch(`${...VITE_API_URL}/api/amm/pools`, {*)
(*   "F2"  method: 'POST',                                                 *)
(*   "F3"  headers: { 'Content-Type': 'application/json' },                *)
(*   "F4"  body: JSON.stringify(payload)                                   *)
(*   "F5"  });                                                             *)
(*   "H"   headers,                                                        *)
(*   "J"   lines 12-23 of fix-auth.py (the token lookup and the if/else)   *)
(*   "x"   any other text                                                  *)
(***************************************************************************)
IsWs(t) == t \in {"s", "n"}

\* \s+ is greedy: the first index >= i that holds no whitespace (Len+1 at the end)
RECURSIVE SkipWs(_, _)
SkipWs(s, i) == IF i <= Len(s) /\ IsWs(s[i]) THEN SkipWs(s, i + 1) ELSE i

Tok(s, i) == IF i >= 1 /\ i <= Len(s) THEN s[i] ELSE "eof"

\* \s+ followed by the literal `lit`, from index i: the index of the literal, or 0
WsThen(s, i, lit) ==
    IF i = 0 THEN 0
    ELSE LET j == SkipWs(s, i) IN IF j > i /\ Tok(s, j) = lit THEN j ELSE 0

\* line 8, group 1: (\s+console\.log\(...\);) from index i; index of its end or 0
Group1End(s, i) == WsThen(s, i, "L")

\* line 8, old_pattern matched at index i: the index of the match's last token, or 0.
\* Between the groups \s+(\s+const ...) needs two whitespace characters or more.
MatchEnd(s, i) ==
    LET l == Group1End(s, i)
        f1 == IF l = 0 THEN 0
              ELSE LET k == SkipWs(s, l + 1)
                   IN IF k - (l + 1) >= 2 /\ Tok(s, k) = "F1" THEN k ELSE 0
        f2 == IF f1 = 0 THEN 0 ELSE WsThen(s, f1 + 1, "F2")
        f3 == IF f2 = 0 THEN 0 ELSE WsThen(s, f2 + 1, "F3")
        f4 == IF f3 = 0 THEN 0 ELSE WsThen(s, f3 + 1, "F4")
        f5 == IF f4 = 0 THEN 0 ELSE WsThen(s, f4 + 1, "F5")
    IN f5

\* lines 10-29, new_code after \1
Sp(k) == [i \in 1..k |-> "s"]
NEW_TAIL ==
    <<"n", "n">> \o Sp(8) \o <<"J", "n">> \o Sp(8) \o <<"n">> \o Sp(8) \o <<"F1", "n">>
    \o Sp(10) \o <<"F2", "n">> \o Sp(10) \o <<"H", "n">> \o Sp(10) \o <<"F4", "n">>
    \o Sp(8) \o <<"F5">>

\* mutant: the lookup is put before the log line and the old request is kept
Replacement_Mut(g1) ==
    <<"n", "J">> \o g1 \o <<"n", "n", "F1", "n", "F2", "n", "F3", "n", "F4", "n", "F5">>

\* lines 10-29: new_code expanded with group 1
Replacement(g1) == g1 \o NEW_TAIL

\* line 32: the scan of re.sub, the leftmost index >= i where old_pattern matches, or 0
FirstMatch(s, i) ==
    LET starts == {k \in i..Len(s) : MatchEnd(s, k) > 0}
    IN IF starts = {} THEN 0 ELSE CHOOSE k \in starts : \A j \in starts : k <= j

\* line 32: re.sub, leftmost non-overlapping matches from index i on; the text
\* between two matches is copied
RECURSIVE SubFrom(_, _)
SubFrom(s, i) ==
    LET k == FirstMatch(s, i)
    IN IF k = 0 THEN SubSeq(s, i, Len(s))
       ELSE SubSeq(s, i, k - 1) \o Replacement(SubSeq(s, k, Group1End(s, k)))
            \o SubFrom(s, MatchEnd(s, k) + 1)

ReSub(s) == SubFrom(s, 1)

\* re.search(old_pattern, s) is not None
HasMatch(s) == \E i \in 1..Len(s) : MatchEnd(s, i) > 0

\* the file is put together from these pieces
OLD_FETCH == <<"n", "F1", "n", "F2", "s", "F3", "n", "F4", "n", "F5">>
OLD_BLOCK == <<"n", "L", "n">> \o OLD_FETCH
Chunks == {<<"s">>, <<"x">>, <<"L">>, OLD_FETCH, OLD_BLOCK, NEW_TAIL}
TsTexts == {Flatten(cs) : cs \in SeqsUpTo(Chunks, MaxChunks)}

NoFile == [exists |-> FALSE, text |-> <<>>]
NotRead == [ok |-> FALSE, text |-> <<>>]

FaInit ==
    /\ ts_file \in {NoFile} \cup {[exists |-> TRUE, text |-> t] : t \in TsTexts}
    /\ fa_pc = "read"
    /\ content = <<>>
    /\ fa_out = <<>>
    /\ fa_status = 0
    /\ fa_runs = 1
    /\ fa_read = NotRead
    /\ fa_prev = NotRead

FaIdle ==
    /\ ts_file = NoFile
    /\ fa_pc = "idle"
    /\ content = <<>>
    /\ fa_out = <<>>
    /\ fa_status = 0
    /\ fa_runs = 0
    /\ fa_read = NotRead
    /\ fa_prev = NotRead

\* lines 4-5; no handler: a missing file ends the run with a traceback, status 1
FaRead ==
    /\ fa_pc = "read"
    /\ IF ts_file.exists
       THEN /\ content' = ts_file.text
            /\ fa_read' = [ok |-> TRUE, text |-> ts_file.text]
            /\ fa_pc' = "sub"
            /\ UNCHANGED fa_status
       ELSE /\ fa_pc' = "done"
            /\ fa_status' = 1
            /\ UNCHANGED <<content, fa_read>>
    /\ UNCHANGED <<ts_file, fa_out, fa_runs, fa_prev, mig_vars>>

\* line 32
FaSub ==
    /\ fa_pc = "sub"
    /\ content' = ReSub(content)
    /\ fa_pc' = "write"
    /\ UNCHANGED <<ts_file, fa_out, fa_status, fa_runs, fa_read, fa_prev, mig_vars>>

\* lines 35-36
FaWrite ==
    /\ fa_pc = "write"
    /\ ts_file' = [exists |-> TRUE, text |-> content]
    /\ fa_pc' = "print"
    /\ UNCHANGED <<content, fa_out, fa_status, fa_runs, fa_read, fa_prev, mig_vars>>

\* line 38, then the script ends: status 0
FaPrint ==
    /\ fa_pc = "print"
    /\ fa_out' = Append(fa_out, "File updated!")
    /\ fa_status' = 0
    /\ fa_pc' = "done"
    /\ UNCHANGED <<ts_file, content, fa_runs, fa_read, fa_prev, mig_vars>>

\* the script is started again on the file the previous run left
FaRunAgain ==
    /\ fa_pc = "done"
    /\ fa_runs < MaxRuns
    /\ fa_runs' = fa_runs + 1
    /\ fa_pc' = "read"
    /\ content' = <<>>
    /\ fa_out' = <<>>
    /\ fa_status' = 0
    /\ fa_prev' = fa_read
    /\ fa_read' = NotRead
    /\ UNCHANGED <<ts_file, mig_vars>>

FaNext ==
    \/ FaRead
    \/ FaSub
    \/ FaWrite
    \/ FaPrint
    \/ FaRunAgain

\* ------------------------------------------------------------------ specifications
Init == MigInit /\ FaIdle
Next == MigNext
Spec == Init /\ [][Next]_vars

PatchInit == MigIdle /\ FaInit
PatchNext == FaNext
PatchSpec == PatchInit /\ [][PatchNext]_vars

\* ------------------------------------------------------------------ properties
ErrTags == {"err_file_not_found", "err_database", "err_unexpected"}
CountTag(T) == Cardinality({i \in 1..Len(out) : out[i].tag \in T})
LinesOf(tag) == SelectSeq(out, LAMBDA l : l.tag = tag)

Attempted(name) == \E i \in 1..Len(steps) : steps[i].step = name
Ok(name) == \E i \in 1..Len(steps) : steps[i] = Step(name, "ok")
Failed(name) == \E i \in 1..Len(steps) : steps[i].step = name /\ steps[i].outcome # "ok"

Order == <<"load", "connect", "execute", "duels", "markets", "admin", "close">>
Verification == <<Q_DUELS, Q_MARKETS, Q_ADMIN>>

\* C1: once the connection has been opened, a run that has terminated has closed it.
C1_ConnectionClosedOnExit ==
    (pc = "done" /\ conn # "none") => conn = "closed"

\* C2: when the migration file is missing the run exits non-zero with exactly one
\* 'Migration file not found' diagnostic, and in no state of that run has a
\* connection been attempted.
C2_FileNotFound ==
    fileStatus = "missing" =>
        /\ ~Attempted("connect")
        /\ CountTag({"connecting"}) = 0
        /\ conn = "none"
        /\ pc = "done" =>
            /\ exit_code # 0
            /\ CountTag({"err_file_not_found"}) = 1
            /\ CountTag(ErrTags) = 1

C2_Witness == fileStatus = "missing" /\ pc = "done" /\ Failed("load")

\* C3: when the batch execution raises, the run exits non-zero right after the
\* execute attempt: no verification query is issued and the success banner is
\* not printed.
C3_ExecuteError ==
    Failed("execute") =>
        /\ pc = "done"
        /\ exit_code # 0
        /\ Len(sent) = 1
        /\ \A i \in 1..Len(Verification) : \A j \in 1..Len(sent) : sent[j] # Verification[i]
        /\ CountTag({"success", "duels_header", "markets_header", "admin_header"}) = 0

C3_Witness == Failed("execute") /\ conn = "open" /\ pc = "done"

AdminMiss == Ok("admin") /\ admin_rows = <<>>

\* C4: when the admin lookup returns no row the warning is printed, the completion
\* banner is still printed, the connection is closed and the exit code is zero.
C4_LookupMiss ==
    AdminMiss =>
        /\ CountTag({"admin_not_found"}) = 1
        /\ out[Len(out)] = P("all_done")
        /\ CountTag(ErrTags) = 0
        /\ pc \in {"close", "done"}
        /\ pc = "done" => (conn = "closed" /\ exit_code = 0)

C4_Witness == AdminMiss /\ pc = "done"

\* C5: the steps happen at most once each, in the order load, connect, execute,
\* duels, markets, admin, close; a failed step is the last one; the batch is sent
\* only after the payload was read, and a verification query only after the batch
\* was executed successfully.
C5_StrictOrder ==
    /\ Len(steps) <= Len(Order)
    /\ \A i \in 1..Len(steps) : steps[i].step = Order[i]
    /\ \A i \in 1..Len(steps) : steps[i].outcome # "ok" => (i = Len(steps) /\ pc = "done")
    /\ Len(sent) <= 1 + Len(Verification)
    /\ \A i \in 2..Len(sent) : sent[i] = Verification[i - 1]
    /\ sent # <<>> => (Ok("load") /\ Ok("connect") /\ conn # "none" /\ Attempted("execute"))
    /\ Len(sent) >= 2 => Ok("execute")
    /\ conn = "closed" => Len(sent) = 1 + Len(Verification)

C5_Witness == pc = "done" /\ Len(steps) = Len(Order) /\ conn = "closed"

AllSucceeded == \A i \in 1..6 : Ok(Order[i])

\* C6: the exit code is zero exactly when load, connect, execute and the three
\* verification queries all complete; a failure of any of them ends the run with a
\* non-zero exit code and exactly one error diagnostic.
C6_ExitCode ==
    pc = "done" =>
        /\ exit_code = 0 <=> AllSucceeded
        /\ AllSucceeded => CountTag(ErrTags) = 0
        /\ ~AllSucceeded => (exit_code # 0 /\ CountTag(ErrTags) = 1)

C6_Witness == pc = "done" /\ Failed("markets") /\ exit_code = 1

\* C7: the text given to the engine in the execute step is the text of the
\* migration file, unchanged since it was read; the comment-stripped copy is not
\* what is sent.
C7_Verbatim ==
    /\ Ok("load") => sql_content = fileText
    /\ sent # <<>> => sent[1] = fileText
    /\ (sent # <<>> /\ sql_clean # fileText) => sent[1] # sql_clean

C7_Witness == sent # <<>> /\ sql_clean # fileText /\ sql_clean # <<>>

AdminHit == Ok("admin") /\ admin_rows # <<>>

\* C8: when the admin lookup returns one row or more, the id, role, wallet address
\* and creation timestamp of the first row are printed once each, and the 'not
\* found' warning is not printed.
C8_AdminRecord ==
    AdminHit =>
        /\ LinesOf("id") = <<Line("id", <<admin_rows[1][1]>>)>>
        /\ LinesOf("role") = <<Line("role", <<admin_rows[1][2]>>)>>
        /\ LinesOf("wallet") = <<Line("wallet", <<admin_rows[1][3]>>)>>
        /\ LinesOf("created") = <<Line("created", <<admin_rows[1][4]>>)>>
        /\ CountTag({"admin_not_found"}) = 0

C8_Witness ==
    AdminHit /\ Len(admin_rows) = 2 /\ admin_rows[1] # admin_rows[2] /\ pc = "done"

====
